---- MODULE Spec2Model ----
(***************************************************************************)
(* The TMC (TM1636/37/38) protocol decoder of pd.py as a state machine.    *)
(* One step is one sample of the logic stream examined by Decoder.decode:  *)
(* either the sample matches a condition of the pending wait() and the     *)
(* corresponding handler runs, or wait() keeps scanning.                   *)
(***************************************************************************)
EXTENDS Integers, Sequences, FiniteSets, TLC

\* ------------------------------------------------------------------------
\* Bounds of the model
\* ------------------------------------------------------------------------
MaxFree == 6         \* number of freely driven samples after the scripted opening
TapeStart == 2       \* sample of the start condition in a scripted stream
TapeHalf == 1        \* samples from a clock rising edge to the falling edge
TapePeriod == TapeHalf + 2   \* samples from one clock rising edge to the next

\* ------------------------------------------------------------------------
\* Program constants
\* ------------------------------------------------------------------------
ByteBits == 8        \* if self.bitcount <= 8 / if self.bitcount >= 8
TopBit == 7          \* self.databyte |= (dio << 7)
NoSample == -1       \* self.ss = self.es = self.ss_byte = self.ss_ack = -1
None == -1           \* Python None as payload or as pdu_start (never read before set)

Max(x, y) == IF x >= y THEN x ELSE y
Min(x, y) == IF x <= y THEN x ELSE y

\* ------------------------------------------------------------------------
\* IEEE-754 binary64 arithmetic on values >= 0, as Python's float does it
\* (handle_bitrate computes in float).  Naturals of arbitrary size are
\* little-endian sequences of limbs without a leading zero limb.
\* ------------------------------------------------------------------------
LimbBits == 15       \* a limb holds 15 bits, so that a product of limbs fits an integer
LimbBase == 32768    \* 2^LimbBits
MantBits == 53       \* significand of a binary64
DivLimbs == 4        \* operands of a division are scaled to 4 full limbs (60 bits)

RECURSIVE Pow2(_)
Pow2(k) == IF k = 0 THEN 1 ELSE 2 * Pow2(k - 1)

RECURSIVE IntBitLen(_)
IntBitLen(n) == IF n = 0 THEN 0 ELSE 1 + IntBitLen(n \div 2)

RECURSIVE BigNorm(_)
BigNorm(a) == IF a = <<>> THEN <<>>
              ELSE IF a[Len(a)] = 0 THEN BigNorm(SubSeq(a, 1, Len(a) - 1)) ELSE a

RECURSIVE BigFromInt(_)
BigFromInt(n) == IF n = 0 THEN <<>> ELSE <<n % LimbBase>> \o BigFromInt(n \div LimbBase)

RECURSIVE BigToInt(_)
BigToInt(a) == IF a = <<>> THEN 0 ELSE a[1] + LimbBase * BigToInt(Tail(a))

Limb(a, i) == IF i <= Len(a) THEN a[i] ELSE 0

BigBitLen(a) == IF a = <<>> THEN 0 ELSE LimbBits * (Len(a) - 1) + IntBitLen(a[Len(a)])

\* a + b
RECURSIVE BigAddC(_, _, _, _)
BigAddC(a, b, i, c) ==
    IF i > Max(Len(a), Len(b))
    THEN IF c = 0 THEN <<>> ELSE <<c>>
    ELSE LET s == Limb(a, i) + Limb(b, i) + c
         IN  <<s % LimbBase>> \o BigAddC(a, b, i + 1, s \div LimbBase)
BigAdd(a, b) == BigAddC(a, b, 1, 0)

\* a - b for a >= b
RECURSIVE BigSubC(_, _, _, _)
BigSubC(a, b, i, c) ==
    IF i > Len(a) THEN <<>>
    ELSE LET s == a[i] - Limb(b, i) - c
         IN  IF s < 0 THEN <<s + LimbBase>> \o BigSubC(a, b, i + 1, 1)
                      ELSE <<s>> \o BigSubC(a, b, i + 1, 0)
BigSub(a, b) == BigNorm(BigSubC(a, b, 1, 0))

\* -1, 0, 1 as a < b, a = b, a > b
RECURSIVE BigCmpFrom(_, _, _)
BigCmpFrom(a, b, i) ==
    IF i = 0 THEN 0
    ELSE IF a[i] < b[i] THEN -1
    ELSE IF a[i] > b[i] THEN 1
    ELSE BigCmpFrom(a, b, i - 1)
BigCmp(a, b) == IF Len(a) < Len(b) THEN -1
                ELSE IF Len(a) > Len(b) THEN 1
                ELSE BigCmpFrom(a, b, Len(a))

\* a * n for a limb n
RECURSIVE BigMulLimbC(_, _, _, _)
BigMulLimbC(a, n, i, c) ==
    IF i > Len(a)
    THEN IF c = 0 THEN <<>> ELSE <<c>>
    ELSE LET s == a[i] * n + c
         IN  <<s % LimbBase>> \o BigMulLimbC(a, n, i + 1, s \div LimbBase)
BigMulLimb(a, n) == IF n = 0 THEN <<>> ELSE BigMulLimbC(a, n, 1, 0)

\* a * b
RECURSIVE BigMulFrom(_, _, _)
BigMulFrom(a, b, j) ==
    IF j = Len(b) THEN BigMulLimb(a, b[j])
    ELSE BigAdd(BigMulLimb(a, b[j]), <<0>> \o BigMulFrom(a, b, j + 1))
BigMul(a, b) == IF a = <<>> \/ b = <<>> THEN <<>> ELSE BigNorm(BigMulFrom(a, b, 1))

\* a * 2^k
BigShl(a, k) ==
    IF a = <<>> THEN <<>>
    ELSE [i \in 1..(k \div LimbBits) |-> 0] \o BigMulLimbC(a, Pow2(k % LimbBits), 1, 0)

\* floor(a / 2^k)
BigShr(a, k) ==
    LET w == k \div LimbBits
        p == Pow2(k % LimbBits)
        q == LimbBase \div p
        t == IF w >= Len(a) THEN <<>> ELSE SubSeq(a, w + 1, Len(a))
    IN  BigNorm([i \in 1..Len(t) |-> (t[i] \div p) + (Limb(t, i + 1) % p) * q])

BigOdd(a) == a # <<>> /\ a[1] % 2 = 1

\* A binary64 value >= 0 is [m, e], standing for m * 2^e with m < 2^53; 0.0 has m = <<>>.
FZero == [m |-> <<>>, e |-> 0]

\* q * 2^e (plus a nonzero tail below its last bit when sticky), rounded to 53 bits:
\* round to nearest, ties to even
FRound(q, sticky, e) ==
    LET L == BigBitLen(q)
    IN  IF L <= MantBits THEN [m |-> q, e |-> e]
        ELSE LET s  == L - MantBits
                 m  == BigShr(q, s)
                 c  == BigCmp(BigSub(q, BigShl(m, s)), BigShl(<<1>>, s - 1))
                 up == c = 1 \/ (c = 0 /\ (sticky \/ BigOdd(m)))
                 m1 == IF up THEN BigAdd(m, <<1>>) ELSE m
             IN  IF BigBitLen(m1) > MantBits
                 THEN [m |-> BigShr(m1, 1), e |-> e + s + 1]
                 ELSE [m |-> m1, e |-> e + s]

\* float(n) for an integer n >= 0
FFromInt(n) == FRound(BigFromInt(n), FALSE, 0)

\* x * y
FMul(x, y) == IF x.m = <<>> \/ y.m = <<>> THEN FZero
              ELSE FRound(BigMul(x.m, y.m), FALSE, x.e + y.e)

\* the largest q with q * d <= n, from the estimate q (at most 2 too large)
RECURSIVE DivFix(_, _, _, _)
DivFix(n, d, q, p) ==
    IF BigCmp(p, n) > 0 THEN DivFix(n, d, q - 1, BigSub(p, d))
    ELSE [q |-> q, r |-> BigSub(n, p)]

\* one digit of long division in base 2^15: floor(r * 2^15 / d) and the new
\* remainder, for r < d and d of 4 limbs with its top bit set
DivDigit(r, d) ==
    LET n   == IF r = <<>> THEN <<>> ELSE <<0>> \o r
        est == Min((Limb(n, DivLimbs + 1) * LimbBase + Limb(n, DivLimbs)) \div d[DivLimbs],
                   LimbBase - 1)
    IN  DivFix(n, d, est, BigMulLimb(d, est))

\* k digits of the quotient r / d after the point, most significant first
RECURSIVE DivDigits(_, _, _)
DivDigits(st, d, k) ==
    IF k = 0 THEN st
    ELSE LET g == DivDigit(st.r, d)
         IN  DivDigits([q |-> <<g.q>> \o st.q, r |-> g.r], d, k - 1)

\* x / y for y # 0
FDiv(x, y) ==
    IF x.m = <<>> THEN FZero
    ELSE LET sx == DivLimbs * LimbBits - BigBitLen(x.m)
             sy == DivLimbs * LimbBits - BigBitLen(y.m)
             X  == BigShl(x.m, sx)
             Y  == BigShl(y.m, sy)
             q0 == IF BigCmp(X, Y) >= 0 THEN 1 ELSE 0
             D  == DivDigits([q |-> <<q0>>, r |-> IF q0 = 1 THEN BigSub(X, Y) ELSE X],
                             Y, DivLimbs)
         IN  FRound(BigNorm(D.q), D.r # <<>>,
                    (x.e - sx) - (y.e - sy) - DivLimbs * LimbBits)

\* int(x): the integer part
FTrunc(x) == IF x.m = <<>> THEN 0
             ELSE IF x.e >= 0 THEN BigToInt(BigShl(x.m, x.e))
             ELSE BigToInt(BigShr(x.m, 0 - x.e))

\* ------------------------------------------------------------------------
\* State
\* ------------------------------------------------------------------------
VARIABLES
    ss, es, ss_byte, ss_ack,   \* Decoder: spans of the last event, byte start, ACK start
    samplerate,                \* Decoder.samplerate, set by metadata()
    pdu_start, pdu_bits,       \* Decoder: bitrate window
    bustype,                   \* Decoder.bustype: "None", "wire2", "wire3"
    bytecount, bitcount, databyte, bits,
    state,                     \* Decoder.state
    samplenum, pins,           \* host: number and levels of the current sample
    out,                       \* host: events put() during the last step, in order
    ran,                       \* handlers entered during the last step, in order
    prev,                      \* the events put() last before the last step, see Seen
    sess,                      \* history of the current session, see NewSession
    input, tape, limit,        \* sample source: all level changes, those to come,
                               \* and the number of the last sample
    channels,                  \* host: the connected channels, as has_channel() tells
    pc                         \* where the host is with the decoder: "init" (constructed
                               \* or reset), "decode" (decode() called), "wait" (decode
                               \* waits for a sample), or the error decode() raised

decoder == <<ss, es, ss_byte, ss_ack, samplerate, pdu_start, pdu_bits, bustype,
             bytecount, bitcount, databyte, bits, state>>
vars == <<ss, es, ss_byte, ss_ack, samplerate, pdu_start, pdu_bits, bustype,
          bytecount, bitcount, databyte, bits, state, samplenum, pins,
          out, ran, prev, sess, input, tape, limit, channels, pc>>

\* The decoder object with the host's sample number and output sink.
Self == [ss |-> ss, es |-> es, ss_byte |-> ss_byte, ss_ack |-> ss_ack,
         samplerate |-> samplerate, pdu_start |-> pdu_start, pdu_bits |-> pdu_bits,
         bustype |-> bustype, bytecount |-> bytecount, bitcount |-> bitcount,
         databyte |-> databyte, bits |-> bits, state |-> state,
         samplenum |-> samplenum, out |-> <<>>, ran |-> <<>>]

Levels == {0, 1}
Pins == [clk : Levels, dio : Levels, stb : Levels]

\* ------------------------------------------------------------------------
\* Bit operations on bytes
\* ------------------------------------------------------------------------
RECURSIVE BitOr(_, _)
BitOr(a, b) == IF a = 0 THEN b
               ELSE IF b = 0 THEN a
               ELSE Max(a % 2, b % 2) + 2 * BitOr(a \div 2, b \div 2)

ShiftLeft(a, k) == a * Pow2(k)
ShiftRight(a, k) == a \div Pow2(k)

\* ------------------------------------------------------------------------
\* Output: self.put(ss, es, output, data)
\* ------------------------------------------------------------------------
Event(ch, s, e, kind, val, bl) ==
    [ch |-> ch, ss |-> s, es |-> e, kind |-> kind, val |-> val, bits |-> bl]

put(self, s, e, ch, kind, val, bl) ==
    [self EXCEPT !.out = Append(@, Event(ch, s, e, kind, val, bl))]

putx(self, kind, val) == put(self, self.ss, self.es, "ann", kind, val, <<>>)
putp(self, kind, val, bl) == put(self, self.ss, self.es, "python", kind, val, bl)
putb(self, val) == put(self, self.ss, self.es, "binary", "DATA", val, <<>>)

enter(self, name) == [self EXCEPT !.ran = Append(@, name)]

\* ------------------------------------------------------------------------
\* Decoder methods
\* ------------------------------------------------------------------------
clear_data(self) == [self EXCEPT !.bitcount = 0, !.databyte = 0, !.bits = <<>>]

\* elapsed = 1 / float(samplerate); elapsed *= samplenum - pdu_start - 1
\* if elapsed: bitrate = int(1 / elapsed * pdu_bits); put(ss_byte, samplenum, ...)
\* (handle_bitrate_whole_window is the faulty variant that forgets the - 1)
handle_bitrate_whole_window(self) ==
    LET period  == FDiv(FFromInt(1), FFromInt(self.samplerate))
        elapsed == FMul(period, FFromInt(self.samplenum - self.pdu_start))
        bitrate == FTrunc(FMul(FDiv(FFromInt(1), elapsed), FFromInt(self.pdu_bits)))
    IN  IF elapsed # FZero
        THEN put(enter(self, "handle_bitrate"), self.ss_byte, self.samplenum,
                 "meta", "Bitrate", bitrate, <<>>)
        ELSE enter(self, "handle_bitrate")
handle_bitrate(self) ==
    LET period  == FDiv(FFromInt(1), FFromInt(self.samplerate))
        elapsed == FMul(period, FFromInt(self.samplenum - self.pdu_start - 1))
        bitrate == FTrunc(FMul(FDiv(FFromInt(1), elapsed), FFromInt(self.pdu_bits)))
    IN  IF elapsed # FZero
        THEN put(enter(self, "handle_bitrate"), self.ss_byte, self.samplenum,
                 "meta", "Bitrate", bitrate, <<>>)
        ELSE enter(self, "handle_bitrate")

\* (handle_start_keeps_count is the faulty variant that leaves bytecount alone)
handle_start_keeps_count(self) ==
    LET s1 == [enter(self, "handle_start") EXCEPT
                  !.ss = self.samplenum, !.es = self.samplenum,
                  !.pdu_start = self.samplenum, !.pdu_bits = 0]
        s2 == putx(putp(s1, "START", None, <<>>), "START", None)
    IN  [clear_data(s2) EXCEPT !.state = "FIND DATA"]
handle_start(self) ==
    LET s1 == [enter(self, "handle_start") EXCEPT
                  !.ss = self.samplenum, !.es = self.samplenum,
                  !.pdu_start = self.samplenum, !.pdu_bits = 0, !.bytecount = 0]
        s2 == putx(putp(s1, "START", None, <<>>), "START", None)
    IN  [clear_data(s2) EXCEPT !.state = "FIND DATA"]

BitRecord(dio, s, e) == [v |-> dio, ss |-> s, es |-> e]

\* Include current data bit to data byte (LSB-first transmission):
\* self.databyte >>= 1; self.databyte |= (dio << 7)
\* (fold_bit_msb_first is the faulty variant that shifts the other way)
fold_bit_msb_first(byte, dio) == BitOr((byte * 2) % Pow2(ByteBits), dio)
fold_bit(byte, dio) == BitOr(ShiftRight(byte, 1), ShiftLeft(dio, TopBit))

\* self.bits.reverse()
\* (Reverse_kept is the faulty variant that leaves the latest bit first)
Reverse_kept(s) == s
Reverse(s) == [i \in 1..Len(s) |-> s[Len(s) + 1 - i]]
\* Python's s[-n:]
LastN(s, n) == IF Len(s) <= n THEN s ELSE SubSeq(s, Len(s) - n + 1, Len(s))

\* the byte of handle_data_wire2 and handle_byte_wire3, from "Display data byte" on:
\* BITS, COMMAND/DATA, binary byte and its annotation over [ss_byte, samplenum]
put_byte(self, bl) ==
    LET s1  == [self EXCEPT !.ss = self.ss_byte, !.es = self.samplenum, !.bits = bl]
        cmd == IF self.bytecount = 0 THEN "COMMAND" ELSE "DATA"
        s2  == putp(s1, "BITS", None, bl)
        s3  == putp(s2, cmd, self.databyte, <<>>)
        s4  == putb(s3, self.databyte)
    IN  putx(s4, cmd, self.databyte)

\* (handle_data_wire2_eighth is the faulty variant that ends the byte an edge early)
handle_data_wire2_eighth(self, p) ==
    LET n    == self.samplenum
        s0   == enter(self, "handle_data_wire2")
        ins  == <<BitRecord(p.dio, n, n)>> \o self.bits
        bl   == IF self.bitcount > 0 THEN [ins EXCEPT ![2].es = n] ELSE ins
        s1   == IF self.bitcount > 0 /\ self.bitcount <= ByteBits
                THEN put([s0 EXCEPT !.bits = bl], bl[2].ss, bl[2].es, "ann", "BIT", bl[2].v, <<>>)
                ELSE [s0 EXCEPT !.bits = bl]
        s2   == [s1 EXCEPT !.bitcount = @ + 1]
    IN  IF s2.bitcount < ByteBits
        THEN [s2 EXCEPT !.databyte = fold_bit(@, p.dio)]
        ELSE LET s3 == put_byte(s2, Reverse(LastN(s2.bits, ByteBits)))
             IN  [clear_data(s3) EXCEPT !.ss_ack = n, !.bytecount = @ + 1,
                                        !.state = "FIND ACK"]
handle_data_wire2(self, p) ==
    LET n    == self.samplenum
        s0   == enter(self, "handle_data_wire2")
        ins  == <<BitRecord(p.dio, n, n)>> \o self.bits
        \* Register end sample of the previous bit and display it
        bl   == IF self.bitcount > 0 THEN [ins EXCEPT ![2].es = n] ELSE ins
        s1   == IF self.bitcount > 0 /\ self.bitcount <= ByteBits
                THEN put([s0 EXCEPT !.bits = bl], bl[2].ss, bl[2].es, "ann", "BIT", bl[2].v, <<>>)
                ELSE [s0 EXCEPT !.bits = bl]
        s2   == [s1 EXCEPT !.bitcount = @ + 1]
    IN  IF s2.bitcount <= ByteBits
        THEN [s2 EXCEPT !.databyte = fold_bit(@, p.dio)]
        ELSE LET s3 == put_byte(s2, Reverse(LastN(s2.bits, ByteBits)))
             IN  [clear_data(s3) EXCEPT !.ss_ack = n, !.bytecount = @ + 1,
                                        !.state = "FIND ACK"]

\* (handle_ack_swapped is the faulty variant that reads the data level the other way)
handle_ack_swapped(self, p) ==
    LET s1  == [enter(self, "handle_ack") EXCEPT !.ss = self.ss_ack, !.es = self.samplenum]
        cmd == IF p.dio = 0 THEN "NACK" ELSE "ACK"
    IN  [putx(putp(s1, cmd, None, <<>>), cmd, None) EXCEPT !.state = "FIND DATA"]
handle_ack(self, p) ==
    LET s1  == [enter(self, "handle_ack") EXCEPT !.ss = self.ss_ack, !.es = self.samplenum]
        cmd == IF p.dio = 0 THEN "ACK" ELSE "NACK"
    IN  [putx(putp(s1, cmd, None, <<>>), cmd, None) EXCEPT !.state = "FIND DATA"]

\* the tail shared by handle_stop_wire2 and handle_stop_wire3, from "Display stop" on
\* (put_stop_from_start is the faulty variant that spans the whole session)
put_stop_from_start(self) ==
    LET s1 == [self EXCEPT !.ss = self.pdu_start, !.es = self.samplenum]
        s2 == putx(putp(s1, "STOP", None, <<>>), "STOP", None)
    IN  [clear_data(s2) EXCEPT !.state = "FIND START"]
put_stop(self) ==
    LET s1 == [self EXCEPT !.ss = self.samplenum, !.es = self.samplenum]
        s2 == putx(putp(s1, "STOP", None, <<>>), "STOP", None)
    IN  [clear_data(s2) EXCEPT !.state = "FIND START"]

\* (handle_stop_wire2_metric_last is the faulty variant that displays the stop first)
handle_stop_wire2_metric_last(self) ==
    handle_bitrate(put_stop(enter(self, "handle_stop_wire2")))
handle_stop_wire2(self) == put_stop(handle_bitrate(enter(self, "handle_stop_wire2")))

RECURSIVE put_bits(_, _, _)
put_bits(self, bl, i) ==
    IF i > Len(bl) THEN self
    ELSE put_bits(put(self, bl[i].ss, bl[i].es, "ann", "BIT", bl[i].v, <<>>), bl, i + 1)

\* (handle_byte_wire3_then_ack is the faulty variant that expects an ACK bit)
handle_byte_wire3_then_ack(self) ==
    IF self.bits = <<>> THEN enter(self, "handle_byte_wire3")
    ELSE LET bl == [self.bits EXCEPT ![1].es = self.samplenum]
             s1 == put_bits(enter(self, "handle_byte_wire3"), bl, 1)
             s2 == put_byte(s1, Reverse(bl))
         IN  [s2 EXCEPT !.bytecount = @ + 1, !.state = "FIND ACK"]
handle_byte_wire3(self) ==
    IF self.bits = <<>> THEN enter(self, "handle_byte_wire3")
    ELSE LET bl == [self.bits EXCEPT ![1].es = self.samplenum]
             s1 == put_bits(enter(self, "handle_byte_wire3"), bl, 1)
             s2 == put_byte(s1, Reverse(bl))
         IN  [s2 EXCEPT !.bytecount = @ + 1]

\* (handle_data_wire3_keeps_start is the faulty variant that does not move
\* ss_byte to the 9th edge)
handle_data_wire3_keeps_start(self, p) ==
    LET n   == self.samplenum
        s0  == enter(self, "handle_data_wire3")
        s1  == IF self.bitcount >= ByteBits
               THEN clear_data(handle_byte_wire3(s0))
               ELSE s0
        ins == <<BitRecord(p.dio, n, n)>> \o s1.bits
        bl  == IF s1.bitcount > 0 THEN [ins EXCEPT ![2].es = n] ELSE ins
    IN  [s1 EXCEPT !.bits = bl,
                   !.databyte = fold_bit(@, p.dio),
                   !.bitcount = @ + 1]
handle_data_wire3(self, p) ==
    LET n   == self.samplenum
        s0  == enter(self, "handle_data_wire3")
        s1  == IF self.bitcount >= ByteBits
               THEN [clear_data(handle_byte_wire3(s0)) EXCEPT !.ss_byte = n]
               ELSE s0
        ins == <<BitRecord(p.dio, n, n)>> \o s1.bits
        bl  == IF s1.bitcount > 0 THEN [ins EXCEPT ![2].es = n] ELSE ins
    IN  [s1 EXCEPT !.bits = bl,
                   !.databyte = fold_bit(@, p.dio),
                   !.bitcount = @ + 1]

\* (handle_stop_wire3_no_flush is the faulty variant that drops the pending bits)
handle_stop_wire3_no_flush(self) ==
    put_stop(handle_bitrate(enter(self, "handle_stop_wire3")))
handle_stop_wire3(self) ==
    put_stop(handle_byte_wire3(handle_bitrate(enter(self, "handle_stop_wire3"))))

\* getattr(self, "handle_data_{}".format(self.bustype))
\* (handle_data_always_wire2 is the faulty variant that ignores the bus variant)
handle_data_always_wire2(self, p) ==
    LET s1 == [enter(self, "handle_data") EXCEPT !.pdu_bits = @ + 1]
        s2 == IF self.bitcount = 0 THEN [s1 EXCEPT !.ss_byte = self.samplenum] ELSE s1
    IN  handle_data_wire2(s2, p)
handle_data(self, p) ==
    LET s1 == [enter(self, "handle_data") EXCEPT !.pdu_bits = @ + 1]
        s2 == IF self.bitcount = 0 THEN [s1 EXCEPT !.ss_byte = self.samplenum] ELSE s1
    IN  IF self.bustype = "wire2" THEN handle_data_wire2(s2, p)
                                  ELSE handle_data_wire3(s2, p)

\* getattr(self, "handle_stop_{}".format(self.bustype))
handle_stop(self) ==
    IF self.bustype = "wire2" THEN handle_stop_wire2(enter(self, "handle_stop"))
                              ELSE handle_stop_wire3(enter(self, "handle_stop"))

\* ------------------------------------------------------------------------
\* wait(): conditions on the levels and edges of one sample
\* ------------------------------------------------------------------------
\* one term {channel: 'h' | 'l' | 'r' | 'f'} between the previous and this sample
\* (the host never matches a term on a channel that is not connected)
Term(was, now, t) ==
    /\ t[1] \in channels
    /\ CASE t[2] = "h" -> now[t[1]] = 1
         [] t[2] = "l" -> now[t[1]] = 0
         [] t[2] = "r" -> was[t[1]] = 0 /\ now[t[1]] = 1
         [] t[2] = "f" -> was[t[1]] = 1 /\ now[t[1]] = 0

\* self.matched: one flag per condition of the list given to wait()
Matched(conds, was, now) ==
    [i \in 1..Len(conds) |-> \A t \in conds[i] : Term(was, now, t)]

FindStartConds == << {<<"clk", "h">>, <<"stb", "f">>},
                     {<<"clk", "l">>, <<"stb", "f">>},
                     {<<"clk", "h">>, <<"dio", "f">>} >>
FindDataConds  == << {<<"stb", "r">>},
                     {<<"clk", "h">>, <<"dio", "r">>},
                     {<<"clk", "r">>} >>
\* (FindAckConds_rising is the faulty variant that waits for the other edge)
FindAckConds_rising == << {<<"clk", "r">>} >>
FindAckConds   == << {<<"clk", "f">>} >>

\* the list the decode loop waits on in its current state
WaitConds == CASE state = "FIND START" -> FindStartConds
               [] state = "FIND DATA"  -> FindDataConds
               [] state = "FIND ACK"   -> FindAckConds

\* wait() returns at the first sample that meets some condition of the list
Returns(conds, was, now) == \E i \in 1..Len(conds) : Matched(conds, was, now)[i]

\* ------------------------------------------------------------------------
\* The sample source
\* ------------------------------------------------------------------------
\* levels of the next sample: those the tape of level changes prescribes; once
\* the tape is used up, any levels, until the stream ends at sample `limit`
\* (a channel that is not connected shows one level throughout)
Connected(ps) == {p \in ps : \A c \in {"clk", "dio", "stb"} \ channels : p[c] = 1}
NextPins ==
    IF tape # <<>>
    THEN IF tape[1].at = samplenum + 1 THEN {tape[1].pins} ELSE {pins}
    ELSE IF samplenum < limit THEN Connected(Pins) ELSE {}

\* ------------------------------------------------------------------------
\* History kept for the properties
\* ------------------------------------------------------------------------
NoEvent == Event("none", NoSample, NoSample, "none", None, <<>>)
Last(s) == s[Len(s)]
\* the per-bit annotations and the bitrate metric; every other event frames
\* the protocol: START, BITS, COMMAND/DATA (also as annotation and binary
\* byte), ACK/NACK, STOP
IsBitAnn(e) == e.ch = "ann" /\ e.kind = "BIT"
IsMetric(e) == e.ch = "meta"
IsFrame(e) == ~IsBitAnn(e) /\ ~IsMetric(e)
\* the last event of all, and the last framing event, once the events s are put
Seen(p, s) ==
    [all   |-> IF s = <<>> THEN p.all ELSE Last(s),
     frame |-> IF SelectSeq(s, IsFrame) = <<>> THEN p.frame
               ELSE Last(SelectSeq(s, IsFrame))]
SelectCh(s, ch) == SelectSeq(s, LAMBDA e : e.ch = ch)
IsByte(e) == e.ch = "python" /\ e.kind \in {"COMMAND", "DATA"}
Bytes(s) == SelectSeq(s, IsByte)

\* The session since the last start condition: the sample and bus variant of
\* its START, the data levels at the clock rising edges given to handle_data
\* and the samples of these edges, the OUTPUT_PYTHON events put() since (the START included), and whether no
\* stop condition was handled yet.
NoSession == [start |-> NoSample, bus |-> "None", levels |-> <<>>, edges |-> <<>>,
              log |-> <<>>, open |-> FALSE]
NewSession(self, bus) == [start |-> self.samplenum, bus |-> bus, levels |-> <<>>,
                          edges |-> <<>>,
                          log |-> SelectCh(self.out, "python"), open |-> TRUE]
Logged(s, self) == [s EXCEPT !.log = @ \o SelectCh(self.out, "python")]

\* ------------------------------------------------------------------------
\* Steps
\* ------------------------------------------------------------------------
\* the next sample is p; the decoder becomes self
Step(p, self, s) ==
    /\ pc = "wait"
    /\ pc' = pc /\ channels' = channels
    /\ samplenum' = samplenum + 1
    /\ pins' = p
    /\ tape' = IF tape # <<>> /\ tape[1].at = samplenum + 1 THEN Tail(tape) ELSE tape
    /\ limit' = limit
    /\ ss' = self.ss /\ es' = self.es /\ ss_byte' = self.ss_byte /\ ss_ack' = self.ss_ack
    /\ samplerate' = self.samplerate
    /\ pdu_start' = self.pdu_start /\ pdu_bits' = self.pdu_bits
    /\ bustype' = self.bustype /\ bytecount' = self.bytecount
    /\ bitcount' = self.bitcount /\ databyte' = self.databyte /\ bits' = self.bits
    /\ state' = self.state
    /\ out' = self.out
    /\ ran' = self.ran
    /\ prev' = Seen(prev, out)
    /\ sess' = s
    /\ input' = input

Arrived == [Self EXCEPT !.samplenum = samplenum + 1]

\* wait() finds no condition met at the next sample and keeps scanning
Skip ==
    \E p \in NextPins :
        /\ ~Returns(WaitConds, pins, p)
        /\ Step(p, Arrived, sess)

\* FIND START: if self.matched[0] or self.matched[1]: bustype = "wire3"; handle_start
\* (FindStartWire3_any_state is the faulty variant that looks for a start throughout)
FindStartWire3_any_state ==
    \E p \in NextPins :
        LET m == Matched(FindStartConds, pins, p)
            r == handle_start([Arrived EXCEPT !.bustype = "wire3"])
        IN  /\ m[1] \/ m[2]
            /\ Step(p, r, NewSession(r, "wire3"))
FindStartWire3 ==
    \E p \in NextPins :
        LET m == Matched(FindStartConds, pins, p)
            r == handle_start([Arrived EXCEPT !.bustype = "wire3"])
        IN  /\ state = "FIND START"
            /\ m[1] \/ m[2]
            /\ Step(p, r, NewSession(r, "wire3"))

\* FIND START: elif self.matched[2]: bustype = "wire2"; handle_start
\* (FindStartWire2_unordered is the faulty variant that tests its pattern alone)
FindStartWire2_unordered ==
    \E p \in NextPins :
        LET m == Matched(FindStartConds, pins, p)
            r == handle_start([Arrived EXCEPT !.bustype = "wire2"])
        IN  /\ state = "FIND START"
            /\ m[3]
            /\ Step(p, r, NewSession(r, "wire2"))
FindStartWire2 ==
    \E p \in NextPins :
        LET m == Matched(FindStartConds, pins, p)
            r == handle_start([Arrived EXCEPT !.bustype = "wire2"])
        IN  /\ state = "FIND START"
            /\ ~(m[1] \/ m[2]) /\ m[3]
            /\ Step(p, r, NewSession(r, "wire2"))

\* FIND DATA: if self.matched[0] or self.matched[1]: handle_stop
FindDataStop ==
    \E p \in NextPins :
        LET m == Matched(FindDataConds, pins, p)
            r == handle_stop(Arrived)
        IN  /\ state = "FIND DATA"
            /\ m[1] \/ m[2]
            /\ Step(p, r, [Logged(sess, r) EXCEPT !.open = FALSE])

\* FIND DATA: elif self.matched[2]: handle_data
FindDataBit ==
    \E p \in NextPins :
        LET m == Matched(FindDataConds, pins, p)
            r == handle_data(Arrived, p)
        IN  /\ state = "FIND DATA"
            /\ ~(m[1] \/ m[2]) /\ m[3]
            /\ Step(p, r, [Logged(sess, r) EXCEPT !.levels = Append(@, p.dio),
                                                      !.edges = Append(@, r.samplenum)])

\* FIND ACK: handle_ack(self.wait({CLK: "f"}))
FindAck ==
    \E p \in NextPins :
        LET m == Matched(FindAckConds, pins, p)
            r == handle_ack(Arrived, p)
        IN  /\ state = "FIND ACK"
            /\ m[1]
            /\ Step(p, r, Logged(sess, r))

\* ------------------------------------------------------------------------
\* Waveforms: lists of level changes [at |-> sample, pins |-> levels]
\* ------------------------------------------------------------------------
P(c, d, s) == [clk |-> c, dio |-> d, stb |-> s]
Change(n, p) == [at |-> n, pins |-> p]

\* the idle bus before a start condition: clock, data and strobe high
Idle == P(1, 1, 1)

\* start condition at sample t0: data falls (2-wire), strobe falls (3-wire)
StartPins(bus) == IF bus = "wire2" THEN P(1, 0, 1) ELSE P(1, 1, 0)

\* clock pulse k of a session started at t0: the clock falls `half` samples
\* after the previous rising edge (or the start), data takes the level lv[k]
\* one sample before the rising edge at t0 + k * per; in between data holds
\* `hold`, the level at the falling edge (the ACK level after a 9th pulse)
Pulse(bus, t0, per, half, k, lv, hold) ==
    LET s == IF bus = "wire2" THEN 1 ELSE 0
    IN  << Change(t0 + (k - 1) * per + half, P(0, hold, s)),
           Change(t0 + k * per - 1,          P(0, lv[k], s)),
           Change(t0 + k * per,              P(1, lv[k], s)) >>

RECURSIVE Pulses(_, _, _, _, _, _, _)
Pulses(bus, t0, per, half, k, lv, ack) ==
    IF k > Len(lv) THEN <<>>
    ELSE Pulse(bus, t0, per, half, k, lv,
               IF k = 1 THEN 0 ELSE IF (k - 1) % (ByteBits + 1) = 0 THEN ack ELSE lv[k - 1])
         \o Pulses(bus, t0, per, half, k + 1, lv, ack)

\* a session up to its last clock pulse: start at t0, one pulse per level of lv
Opening(bus, t0, per, half, lv, ack) ==
    <<Change(t0, StartPins(bus))>> \o Pulses(bus, t0, per, half, 1, lv, ack)

\* the stop condition at sample t after n pulses: the clock falls `half` after
\* the last rising edge with data at `hold`; then strobe rises (3-wire), or
\* data goes low and rises together with the clock (2-wire)
Closing(bus, t0, per, half, n, hold, t) ==
    IF bus = "wire2"
    THEN << Change(t0 + n * per + half, P(0, hold, 1)),
            Change(t - 1, P(0, 0, 1)),
            Change(t,     P(1, 1, 1)) >>
    ELSE << Change(t0 + n * per + half, P(0, hold, 0)),
            Change(t,     P(0, hold, 1)) >>

Session(bus, t0, per, half, lv, ack, t) ==
    Opening(bus, t0, per, half, lv, ack) \o Closing(bus, t0, per, half, Len(lv), ack, t)

\* the 8 levels of a byte, first transmitted (least significant) first
ByteLevels(b) == [i \in 1..ByteBits |-> (b \div Pow2(i - 1)) % 2]

TapeEnd(t) == IF t = <<>> THEN 0 ELSE t[Len(t)].at

\* ------------------------------------------------------------------------
\* Initial states: a reset decoder, metadata() and start() done, at sample 0
\* ------------------------------------------------------------------------
SampleRates == {1000000, 24000000}

\* the object __init__ leaves
Reset ==
    /\ samplerate = None
    /\ ss = NoSample /\ es = NoSample /\ ss_byte = NoSample /\ ss_ack = NoSample
    /\ pdu_start = None /\ pdu_bits = 0
    /\ bustype = "None"
    /\ bytecount = 0
    /\ bitcount = 0 /\ databyte = 0 /\ bits = <<>>
    /\ state = "FIND START"

Fresh ==
    /\ Reset
    /\ samplenum = 0
    /\ out = <<>> /\ ran = <<>> /\ prev = [all |-> NoEvent, frame |-> NoEvent]
    /\ sess = NoSession

\* strobe and data fall in one sample with the clock high; later the strobe
\* rises in the sample in which the clock rises
Ties == << Change(TapeStart, P(1, 0, 0)),
           Change(TapeStart + 1, P(0, 0, 0)),
           Change(TapeStart + 2, P(1, 0, 1)) >>

\* The streams explored: an opening of a session (none, or up to the clock
\* pulse before a byte completes, or the one of Ties), then MaxFree freely
\* driven samples.
Openings ==
    {<<>>, Ties} \cup
    { Opening(bus, TapeStart, TapePeriod, TapeHalf, lv, 0) :
        bus \in {"wire2", "wire3"},
        lv \in { ByteLevels(13), ByteLevels(13) \o <<0>> \o ByteLevels(240) } }

\* the channels the host may have connected
ChannelSets == SUBSET {"clk", "dio", "stb"}
\* the streams that drive connected channels only
Driving(tapes) ==
    {t \in tapes : \A i \in 1..Len(t) : Connected({t[i].pins}) # {}}
\* the levels before the first sample
FirstPins == IF input = <<>> THEN Connected(Pins) ELSE {Idle}

\* ------------------------------------------------------------------------
\* Calls of the host
\* ------------------------------------------------------------------------
\* Decoder.reset
\* (reset_keeps_count is the faulty variant that leaves bytecount alone)
reset_keeps_count(self) ==
    LET s1 == [self EXCEPT !.ss = NoSample, !.es = NoSample, !.ss_byte = NoSample,
                           !.ss_ack = NoSample, !.samplerate = None,
                           !.pdu_start = None, !.pdu_bits = 0, !.bustype = "None"]
    IN  [clear_data(s1) EXCEPT !.state = "FIND START"]
reset(self) ==
    LET s1 == [self EXCEPT !.ss = NoSample, !.es = NoSample, !.ss_byte = NoSample,
                           !.ss_ack = NoSample, !.samplerate = None,
                           !.pdu_start = None, !.pdu_bits = 0, !.bustype = "None",
                           !.bytecount = 0]
    IN  [clear_data(s1) EXCEPT !.state = "FIND START"]

\* the host resets the decoder, whatever it was doing, and rewinds the stream
HostReset ==
    LET r == reset(Self)
    IN  /\ pc' = "init"
        /\ ss' = r.ss /\ es' = r.es /\ ss_byte' = r.ss_byte /\ ss_ack' = r.ss_ack
        /\ samplerate' = r.samplerate
        /\ pdu_start' = r.pdu_start /\ pdu_bits' = r.pdu_bits
        /\ bustype' = r.bustype /\ bytecount' = r.bytecount
        /\ bitcount' = r.bitcount /\ databyte' = r.databyte /\ bits' = r.bits
        /\ state' = r.state
        /\ samplenum' = 0 /\ tape' = input /\ pins' \in FirstPins
        /\ out' = <<>> /\ ran' = <<"reset">>
        /\ prev' = Seen(prev, out)
        /\ sess' = NoSession
        /\ UNCHANGED <<input, limit, channels>>

\* Decoder.metadata(SRD_CONF_SAMPLERATE, value)
Metadata ==
    /\ pc = "init" /\ samplerate = None
    /\ samplerate' \in SampleRates \cup {0}
    /\ ran' = <<"metadata">>
    /\ UNCHANGED <<ss, es, ss_byte, ss_ack, pdu_start, pdu_bits, bustype, bytecount,
                   bitcount, databyte, bits, state, samplenum, pins, out, prev,
                   sess, input, tape, limit, channels, pc>>

\* Decoder.start registers the outputs; the host then calls decode()
Start ==
    /\ pc = "init"
    /\ pc' = "decode"
    /\ ran' = <<>> /\ prev' = [all |-> NoEvent, frame |-> NoEvent]
    /\ UNCHANGED <<decoder, samplenum, pins, out, sess, input, tape, limit, channels>>

Raise(error) ==
    /\ pc' = error
    /\ UNCHANGED <<decoder, samplenum, pins, out, ran, prev, sess, input, tape, limit,
                   channels>>

\* if not self.samplerate: raise SamplerateError
NoSamplerate == samplerate \in {None, 0}
DecodeSamplerateError ==
    /\ pc = "decode"
    /\ NoSamplerate
    /\ Raise("SamplerateError")

\* has_pin = [self.has_channel(ch) for ch in (CLK, DIO)];
\* if has_pin != [True, True]: raise ChannelError
\* (DecodeChannelError_first is the faulty variant that checks the channels first)
DecodeChannelError_first ==
    /\ pc = "decode"
    /\ ~({"clk", "dio"} \subseteq channels)
    /\ Raise("ChannelError")
DecodeChannelError ==
    /\ pc = "decode"
    /\ ~NoSamplerate
    /\ ~({"clk", "dio"} \subseteq channels)
    /\ Raise("ChannelError")

\* decode() enters its loop: while True
DecodeLoop ==
    /\ pc = "decode"
    /\ ~NoSamplerate
    /\ {"clk", "dio"} \subseteq channels
    /\ Raise("wait")

Next == \/ Skip
        \/ FindStartWire3
        \/ FindStartWire2
        \/ FindDataStop
        \/ FindDataBit
        \/ FindAck
        \/ HostReset
        \/ Metadata
        \/ Start
        \/ DecodeSamplerateError
        \/ DecodeChannelError
        \/ DecodeLoop

Init ==
    /\ Fresh
    /\ pc = "init"
    /\ channels \in ChannelSets
    /\ input \in Driving(Openings)
    /\ tape = input
    /\ pins \in FirstPins
    /\ limit = TapeEnd(tape) + MaxFree

Spec == Init /\ [][Next]_vars

\* Whole sessions: every byte value on either bus, with either level at the
\* 9th clock pulse and at the ACK of the 2-wire bus; and the two scenarios of
\* the specification, with 8 and with 9 clock pulses.
ByteSessions ==
    { Session("wire2", TapeStart, TapePeriod, TapeHalf, ByteLevels(b) \o <<a>>, k,
              TapeStart + (ByteBits + 2) * TapePeriod) :
        b \in 0..255, a \in Levels, k \in Levels }
    \cup
    { Session("wire3", TapeStart, TapePeriod, TapeHalf, ByteLevels(b) \o n, 0,
              TapeStart + (ByteBits + 2) * TapePeriod) :
        b \in 0..255, n \in {<<>>, <<0>>, <<1>>} }

Scenario2Wire8 == Session("wire2", 10, 10, 5, ByteLevels(13), 0, 200)
Scenario2Wire9 == Session("wire2", 10, 10, 5, ByteLevels(13) \o <<0>>, 0, 200)
Scenario3Wire8 == Session("wire3", 10, 10, 5, ByteLevels(13), 0, 200)

InitTape ==
    /\ Fresh
    /\ pc = "init"
    /\ channels \in ChannelSets
    /\ input \in IF channels = {"clk", "dio", "stb"}
                 THEN ByteSessions \cup {Scenario2Wire8, Scenario2Wire9, Scenario3Wire8}
                 ELSE {Scenario2Wire9}
    /\ tape = input
    /\ pins \in FirstPins
    /\ limit = TapeEnd(tape)

SpecTape == InitTape /\ [][Next]_vars

\* ------------------------------------------------------------------------
\* Properties
\* ------------------------------------------------------------------------
\* the value of 8 data levels, the first transmitted being bit 0
ValueOf(lv) ==
    lv[1] + 2 * lv[2] + 4 * lv[3] + 8 * lv[4] + 16 * lv[5] + 32 * lv[6]
    + 64 * lv[7] + 128 * lv[8]

\* clock rising edges a byte takes on the bus: 8 data bits, and on the 2-wire
\* bus the 9th edge that ends the byte
EdgesPerByte(bus) == IF bus = "wire2" THEN ByteBits + 1 ELSE ByteBits

\* the data levels of the k-th byte of the session (fewer than 8 if the
\* session has not seen them all)
Group(k) ==
    LET from == (k - 1) * EdgesPerByte(sess.bus) + 1
    IN  SubSeq(sess.levels, from, Min(from + ByteBits - 1, Len(sess.levels)))

\* C1: a byte emitted from 8 accumulated bits has the value in which the
\* i-th sampled data level (i = 0 first) is bit i: sum of b_i * 2^i, on
\* either bus.
C1_BitOrder ==
    \A i \in 1..Len(out) :
        IsByte(out[i]) =>
            LET g == Group(Len(Bytes(sess.log)))
            IN  Len(g) = ByteBits => out[i].val = ValueOf(g)

C1_Witness ==
    /\ sess.bus = "wire2"
    /\ \E i \in 1..Len(out) : IsByte(out[i]) /\ out[i].val = 13
    /\ Group(1) = <<1, 0, 1, 1, 0, 0, 0, 0>>

\* C2: the first byte emitted after a START is a COMMAND and every later byte
\* of that session is DATA; the byte count is 0 right after a START and grows
\* only by the bytes emitted since.
C2_Classification ==
    LET b == Bytes(sess.log)
    IN  /\ \A j \in 1..Len(b) : b[j].kind = IF j = 1 THEN "COMMAND" ELSE "DATA"
        /\ bytecount = Len(b)

C2_Witness ==
    /\ Len(Bytes(sess.log)) = 2
    /\ \E i \in 1..Len(out) : IsByte(out[i]) /\ out[i].kind = "DATA"
    /\ prev.frame.kind \in {"ACK", "NACK", "COMMAND"}

\* the session's events other than BITS, as <<kind, value, start, end>>
Framing(log) ==
    LET f == SelectSeq(log, LAMBDA e : e.kind # "BITS")
    IN  [i \in 1..Len(f) |-> <<f[i].kind, f[i].val, f[i].ss, f[i].es>>]

\* C3 as stated: the 2-wire session with start at sample 10, exactly 8 clock
\* rising edges at 20..90 carrying 1,0,1,1,0,0,0,0, clock falling at 95 with
\* data low and stop at 200 yields START [10,10], COMMAND 13 [20,90],
\* ACK [90,95], STOP [200,200].
C3_Stated ==
    (input = Scenario2Wire8 /\ samplenum = TapeEnd(input)) =>
        Framing(sess.log) = << <<"START", None, 10, 10>>, <<"COMMAND", 13, 20, 90>>,
                               <<"ACK", None, 90, 95>>, <<"STOP", None, 200, 200>> >>

\* C3: the 2-wire session with start at sample 10, 9 clock rising edges at
\* 20..100 of which the first 8 carry 1,0,1,1,0,0,0,0, clock falling at 105
\* with data low and stop at 200 yields, in order, START [10,10],
\* COMMAND 13 [20,100], ACK [100,105], STOP [200,200].
C3_Scenario ==
    (input = Scenario2Wire9 /\ samplenum = TapeEnd(input)) =>
        Framing(sess.log) = << <<"START", None, 10, 10>>, <<"COMMAND", 13, 20, 100>>,
                               <<"ACK", None, 100, 105>>, <<"STOP", None, 200, 200>> >>

C3_Witness ==
    /\ input = Scenario2Wire9 /\ samplenum = TapeEnd(input)
    /\ state = "FIND START" /\ ~sess.open /\ Len(sess.levels) = ByteBits + 1

IsBits(e) == e.ch = "python" /\ e.kind = "BITS"
IsFullBits(e) == IsBits(e) /\ Len(e.bits) = ByteBits
LevelsOf(e) == [i \in 1..Len(e.bits) |-> e.bits[i].v]

\* C4: on the 3-wire bus every group of 8 accumulated bits yields exactly one
\* byte, put at the next clock rising edge (the 9th) or at the stop condition,
\* whichever comes first and ahead of the STOP event: none is lost, none is
\* put twice; 8 edges followed by the stop give exactly one byte, then STOP.
C4_Wire3Flush ==
    sess.bus = "wire3" =>
        LET n    == Len(sess.levels)
            full == SelectSeq(sess.log, IsFullBits)
        IN  /\ Len(full) = IF sess.open THEN (IF n = 0 THEN 0 ELSE (n - 1) \div ByteBits)
                           ELSE n \div ByteBits
            /\ \A j \in 1..Len(full) : LevelsOf(full[j]) = Group(j)
            /\ Len(Bytes(sess.log)) = Len(SelectSeq(sess.log, IsBits))
            /\ ~sess.open => Last(sess.log).kind = "STOP"

C4_Witness ==
    /\ sess.bus = "wire3" /\ ~sess.open /\ Len(sess.levels) = ByteBits
    /\ Len(Bytes(sess.log)) = 1
    /\ Len(out) > 1 /\ Last(out).kind = "STOP"

Wire2Handlers == {"handle_data_wire2", "handle_stop_wire2"}
Wire3Handlers == {"handle_data_wire3", "handle_stop_wire3"}

\* C5: the bus variant is assigned only at a start condition matched in
\* FIND START (strobe falling: 3-wire, else data falling with clock high:
\* 2-wire); from that START to the next its value is the one chosen there,
\* and the data and stop handlers that run are those of that variant.
C5_BusStable ==
    /\ bustype = sess.bus
    /\ \A i \in 1..Len(ran) :
          /\ ran[i] \in Wire2Handlers => sess.bus = "wire2"
          /\ ran[i] \in Wire3Handlers => sess.bus = "wire3"

C5_Witness ==
    /\ input # <<>> /\ sess.bus = "wire2" /\ pins.stb = 0
    /\ \E i \in 1..Len(ran) : ran[i] = "handle_data_wire2"

\* the structured events with a span of their own: BITS, bytes and ACK/NACK
IsSpanned(e) == e.ch = "python" /\ e.kind \in {"BITS", "COMMAND", "DATA", "ACK", "NACK"}
SameSpan(a, b) == a.ss = b.ss /\ a.es = b.es

\* C6 as stated: within a session, of two consecutive events among BITS,
\* bytes and ACK/NACK the later starts neither before the start nor before
\* the end of the earlier, and every span has start <= end.
C6_Stated ==
    LET q == SelectSeq(sess.log, IsSpanned)
    IN  /\ \A i \in 1..Len(q) : q[i].ss <= q[i].es
        /\ \A i \in 1..(Len(q) - 1) : q[i + 1].ss >= q[i].ss /\ q[i + 1].ss >= q[i].es

\* C6: within a session, a BITS event is followed by its byte event over the
\* same span; of any other two consecutive events among BITS, bytes and
\* ACK/NACK the later starts neither before the start nor before the end of
\* the earlier; and every span has start <= end.
C6_Spans ==
    LET q == SelectSeq(sess.log, IsSpanned)
    IN  /\ \A i \in 1..Len(q) : q[i].ss <= q[i].es
        /\ \A i \in 1..(Len(q) - 1) :
              IF IsBits(q[i]) THEN IsByte(q[i + 1]) /\ SameSpan(q[i], q[i + 1])
              ELSE q[i + 1].ss >= q[i].ss /\ q[i + 1].ss >= q[i].es

C6_Witness ==
    LET q == SelectSeq(sess.log, IsSpanned)
    IN  /\ Len(q) >= 4
        /\ \E i \in 1..Len(out) : IsByte(out[i]) /\ out[i].kind = "DATA" /\ out[i].ss < out[i].es

NonDecreasing(q) == \A i \in 1..(Len(q) - 1) : q[i].ss <= q[i + 1].ss
Before(e) == IF e = NoEvent THEN <<>> ELSE <<e>>

\* C7 as stated: all the events put (structured events, per-bit and byte
\* annotations, binary bytes, the bitrate metric), in the order they are put,
\* have non-decreasing span starts.
C7_Stated == NonDecreasing(Before(prev.all) \o out)

\* C7: the events put other than the per-bit annotations and the bitrate
\* metric (the structured events, the byte annotations and the binary bytes),
\* in the order they are put, have non-decreasing span starts.
C7_Order == NonDecreasing(Before(prev.frame) \o SelectSeq(out, IsFrame))

C7_Witness ==
    /\ prev.frame.kind \in {"ACK", "NACK", "COMMAND", "DATA"}
    /\ \E i \in 1..Len(out) : IsBitAnn(out[i])
    /\ \E i \in 1..Len(out) : IsByte(out[i])
    /\ ~NonDecreasing(out)

Metrics(s) == SelectSeq(s, IsMetric)
Stops(s) == SelectSeq(s, LAMBDA e : e.ch = "python" /\ e.kind = "STOP")

\* C8 as stated: the metric put at a stop condition is the integer part of
\* pdu_bits * samplerate / (samplenum - pdu_start - 1), pdu_start being the
\* sample of the session's START and pdu_bits the number of clock rising
\* edges given to the data handler since.
C8_Stated ==
    \A i \in 1..Len(out) :
        IsMetric(out[i]) =>
            out[i].val = (Len(sess.levels) * samplerate) \div (samplenum - sess.start - 1)

\* C9: a stop condition puts exactly one Bitrate metric if
\* samplenum - pdu_start - 1 is not zero (also with no bit counted) and none
\* if it is zero; either way STOP is put and decoding goes on in FIND START;
\* nothing else puts a metric.
C9_MetricPerStop ==
    /\ Len(Stops(out)) > 0 =>
          /\ Len(Metrics(out)) = IF samplenum - sess.start - 1 # 0 THEN 1 ELSE 0
          /\ Len(Stops(out)) = 1 /\ state = "FIND START"
    /\ Len(Stops(out)) = 0 => Len(Metrics(out)) = 0

C9_Witness ==
    /\ Len(Stops(out)) = 1 /\ samplenum = sess.start + 1
    /\ Metrics(out) = <<>> /\ state = "FIND START"

\* C10 as stated: the Bitrate metric put at a stop condition spans from the
\* sample of the session's START to the stop sample; its start is never
\* earlier than the session's START.
C10_Stated ==
    \A i \in 1..Len(out) :
        IsMetric(out[i]) => out[i].ss = sess.start /\ out[i].es = samplenum

Errors == {"SamplerateError", "ChannelError"}

\* what decode() does first, given the sample rate and the channels
Entered ==
    IF NoSamplerate THEN "SamplerateError"
    ELSE IF ~({"clk", "dio"} \subseteq channels) THEN "ChannelError"
    ELSE "wait"

\* C11: decode() fails at once with SamplerateError if no nonzero sample rate
\* is configured, else with ChannelError if the clock or the data channel is
\* absent, before any wait for a sample and any event, the decoder unchanged;
\* a missing strobe channel alone is no error. (A reset alone ends an error.)
C11_FatalPreconditions ==
    [][ /\ (pc = "decode" /\ pc' # "init") =>
              /\ pc' = Entered
              /\ UNCHANGED <<decoder, samplenum, out, sess>>
        /\ pc \in Errors =>
              /\ pc' \in {pc, "init"}
              /\ samplenum = 0 /\ out = <<>> /\ sess = NoSession
        /\ pc' = "wait" => ~NoSamplerate /\ {"clk", "dio"} \subseteq channels
      ]_vars

C11_Witness ==
    /\ pc = "SamplerateError" /\ samplerate = 0 /\ channels = {"stb"}
    /\ samplenum = 0 /\ out = <<>> /\ state = "FIND START"

\* C12: after reset, whatever starts, bits, bytes, ACKs and stops came before,
\* bitcount = 0, bytecount = 0, the bit list is empty, the byte is 0 and the
\* state is FIND START, as in a decoder just constructed; a second reset
\* changes nothing.
C12_ResetIdempotent ==
    /\ ran = <<"reset">> => Reset /\ pc = "init"
    /\ LET r == reset(Self)
       IN  /\ r.bitcount = 0 /\ r.bytecount = 0 /\ r.bits = <<>> /\ r.databyte = 0
           /\ r.state = "FIND START"
           /\ reset(r) = r

C12_Witness ==
    /\ ran = <<"reset">> /\ pc = "init"
    /\ prev.frame.kind = "DATA" /\ prev.all.kind = "DATA"
    /\ bytecount = 0 /\ state = "FIND START"

\* a step of the decode loop, from one sample to the next
Sampled == pc = "wait" /\ pc' = "wait"
IsAck(e) == e.ch = "python" /\ e.kind \in {"ACK", "NACK"}

\* C13: in a 2-wire session the decoder is in FIND ACK after each byte; the
\* next structured event is one ACK or NACK, put at the first clock falling
\* edge after the byte, ACK if data is low there and NACK if high, over
\* [end of the byte, that edge]; until then no bit is accumulated and no stop
\* is recognised, and then the state is FIND DATA again.
C13_AckAfterByte ==
    [][ Sampled =>
        /\ (sess'.bus = "wire2" /\ Bytes(out') # <<>>) => state' = "FIND ACK"
        /\ state = "FIND ACK" =>
              /\ sess.bus = "wire2" /\ IsByte(Last(sess.log))
              /\ IF pins.clk = 1 /\ pins'.clk = 0
                 THEN /\ SelectCh(out', "python") =
                            << Event("python", Last(sess.log).es, samplenum',
                                     IF pins'.dio = 0 THEN "ACK" ELSE "NACK", None, <<>>) >>
                      /\ state' = "FIND DATA"
                 ELSE /\ out' = <<>> /\ state' = "FIND ACK"
              /\ pdu_bits' = pdu_bits /\ bitcount' = 0 /\ bits' = <<>>
              /\ sess'.levels = sess.levels /\ sess'.open
        /\ SelectSeq(out', IsAck) # <<>> => state = "FIND ACK"
      ]_vars

C13_Witness ==
    /\ sess.bus = "wire2" /\ state = "FIND DATA"
    /\ \E i \in 1..Len(out) : IsAck(out[i]) /\ out[i].kind = "NACK" /\ out[i].es > out[i].ss + 1
    /\ pins.dio = 1 /\ pins.clk = 0

\* C14 as stated: on either bus every COMMAND/DATA byte comes right after a
\* BITS event holding exactly 8 bit records; no byte is put for fewer than 8
\* accumulated bits, also not at a stop condition after 1..7 clock edges.
C14_Stated ==
    \A i \in 1..Len(out) :
        IsByte(out[i]) => i > 1 /\ IsBits(out[i - 1]) /\ Len(out[i - 1].bits) = ByteBits

\* C15: in a 2-wire session a byte is put exactly at the 9th clock rising
\* edge of its accumulation, never earlier; its value is that of the first 8
\* levels (the 9th does not count), its span goes from the 1st to the 9th
\* edge, and the state becomes FIND ACK; a stop condition after 8 or fewer
\* edges puts no byte and discards the bits.
C15_Wire2NinthEdge ==
    sess.bus = "wire2" =>
        LET n == Len(sess.levels)
            b == Bytes(sess.log)
            per == EdgesPerByte("wire2")
        IN  /\ Len(b) = n \div per
            /\ \A j \in 1..Len(b) :
                  /\ b[j].val = ValueOf(Group(j))
                  /\ b[j].ss = sess.edges[per * (j - 1) + 1]
                  /\ b[j].es = sess.edges[per * j]
            /\ Bytes(out) # <<>> => state = "FIND ACK" /\ n % per = 0
            /\ ~sess.open => bits = <<>> /\ bitcount = 0 /\ databyte = 0

C15_Witness ==
    /\ sess.bus = "wire2" /\ ~sess.open
    /\ Len(sess.levels) = 2 * ByteBits + 1
    /\ Len(Bytes(sess.log)) = 1 /\ Last(sess.log).kind = "STOP"

Rises(c) == pins[c] = 0 /\ pins'[c] = 1
Falls(c) == pins[c] = 1 /\ pins'[c] = 0

\* C16: in FIND START a sample with a strobe falling edge and with clock high
\* and a data falling edge starts a 3-wire session; in FIND DATA a sample with
\* a stop pattern (strobe rising, or clock high and data rising) and a clock
\* rising edge runs the stop handler only: the data handler is not called, no
\* bit is accumulated and pdu_bits stays.
C16_TieBreak ==
    [][ Sampled =>
        /\ (state = "FIND START" /\ Falls("stb") /\ pins'.clk = 1 /\ Falls("dio")) =>
              /\ bustype' = "wire3" /\ sess'.bus = "wire3" /\ sess'.start = samplenum'
              /\ state' = "FIND DATA"
        /\ (state = "FIND DATA" /\ Rises("clk")
              /\ (Rises("stb") \/ (pins'.clk = 1 /\ Rises("dio")))) =>
              /\ ran'[1] = "handle_stop"
              /\ \A i \in 1..Len(ran') :
                    ran'[i] \notin {"handle_data", "handle_data_wire2", "handle_data_wire3"}
              /\ state' = "FIND START" /\ ~sess'.open
              /\ pdu_bits' = pdu_bits /\ sess'.levels = sess.levels /\ bits' = <<>>
      ]_vars

C16_Witness ==
    /\ input = Ties /\ samplenum = TapeEnd(Ties)
    /\ sess.bus = "wire3" /\ sess.start = TapeStart /\ ~sess.open
    /\ sess.levels = <<>> /\ pdu_bits = 0 /\ state = "FIND START"

\* output and kind of each event of s
Shape(s) == [i \in 1..Len(s) |-> <<s[i].ch, s[i].kind>>]
\* a stop pattern in the sample that arrives
StopPattern == Rises("stb") \/ (pins'.clk = 1 /\ Rises("dio"))

\* C17: a stop condition puts, in this order, the bitrate metric (if any),
\* on the 3-wire bus the pending byte if the bit list is not empty (its bit
\* annotations, BITS, the byte, the binary byte, the byte annotation), then
\* STOP over [stop sample, stop sample]; afterwards bitcount = 0, the byte is
\* 0, the bit list is empty and the state is FIND START. A 3-wire stop with
\* an empty bit list puts no byte.
C17_StopOrder ==
    [][ (Sampled /\ state = "FIND DATA" /\ StopPattern) =>
        LET cmd    == IF bytecount = 0 THEN "COMMAND" ELSE "DATA"
            metric == IF out' # <<>> /\ IsMetric(out'[1])
                      THEN << <<"meta", "Bitrate">> >> ELSE <<>>
            byte   == IF bustype = "wire3" /\ bits # <<>>
                      THEN [i \in 1..Len(bits) |-> <<"ann", "BIT">>]
                           \o << <<"python", "BITS">>, <<"python", cmd>>,
                                 <<"binary", "DATA">>, <<"ann", cmd>> >>
                      ELSE <<>>
            stop   == << <<"python", "STOP">>, <<"ann", "STOP">> >>
        IN  /\ Shape(out') = metric \o byte \o stop
            /\ \A i \in 1..Len(out') :
                  out'[i].kind = "STOP" => out'[i].ss = samplenum' /\ out'[i].es = samplenum'
            /\ bitcount' = 0 /\ databyte' = 0 /\ bits' = <<>> /\ state' = "FIND START"
      ]_vars

C17_Witness ==
    /\ sess.bus = "wire3" /\ state = "FIND START"
    /\ Len(out) = 2 * ByteBits - 1
    /\ IsMetric(out[1]) /\ IsBitAnn(out[2]) /\ Last(out).kind = "STOP"
    /\ Len(Bytes(out)) = 1

BitAnns(s) == SelectSeq(s, IsBitAnn)

\* C18: on the 2-wire bus the annotation of a data bit is put when the next
\* clock rising edge arrives, over [sample of the bit, sample of that edge]
\* and with the value of the bit; the edges 2..9 of a byte put one each, for
\* the bits 1..8, so a completed byte has exactly 8; the 9th (ACK) pulse gets
\* none, nor does the latest bit before a further rising edge arrives.
C18_Wire2BitAnnotations ==
    [][ (Sampled /\ bustype = "wire2") =>
        LET n == Len(sess.levels)
            k == (n % EdgesPerByte("wire2")) + 1
        IN  IF state = "FIND DATA" /\ Rises("clk") /\ ~StopPattern /\ k > 1
            THEN BitAnns(out') = << Event("ann", sess.edges[n], samplenum', "BIT",
                                          sess.levels[n], <<>>) >>
            ELSE BitAnns(out') = <<>>
      ]_vars

C18_Witness ==
    /\ sess.bus = "wire2" /\ state = "FIND ACK"
    /\ Len(sess.levels) = EdgesPerByte("wire2")
    /\ Len(BitAnns(out)) = 1 /\ BitAnns(out)[1].val = sess.levels[ByteBits]
    /\ Bytes(out) # <<>>

\* C19: the state is always FIND START, FIND DATA or FIND ACK, never
\* FIND STOP; it is FIND ACK on the 2-wire bus only, so a 3-wire session has
\* no ACK or NACK and stays in FIND DATA from its START to the stop condition.
C19_ReachableStates ==
    /\ state \in {"FIND START", "FIND DATA", "FIND ACK"}
    /\ state = "FIND ACK" => bustype = "wire2"
    /\ sess.bus = "wire3" =>
          /\ SelectSeq(sess.log, IsAck) = <<>>
          /\ state = IF sess.open THEN "FIND DATA" ELSE "FIND START"

C19_Witness ==
    /\ sess.bus = "wire3" /\ sess.open /\ state = "FIND DATA"
    /\ Len(sess.levels) = ByteBits + 1 /\ Len(Bytes(sess.log)) = 1
    /\ Bytes(out) # <<>>

\* C20: on either bus the bit records of a BITS event come oldest first and
\* touch (the end of one is the start of the next); the first starts where
\* the span of the BITS and byte events starts, the last ends where it ends;
\* the k-th record holds the data level of the k-th clock rising edge of the
\* byte.
C20_BitsShape ==
    LET b == SelectSeq(sess.log, IsBits)
    IN  \A j \in 1..Len(b) :
            LET r    == b[j].bits
                from == (j - 1) * EdgesPerByte(sess.bus)
            IN  /\ r # <<>>
                /\ r[1].ss = b[j].ss /\ r[Len(r)].es = b[j].es
                /\ \A k \in 1..Len(r) :
                      /\ r[k].v = sess.levels[from + k]
                      /\ r[k].ss = sess.edges[from + k]
                      /\ k < Len(r) => r[k].es = r[k + 1].ss /\ r[k].ss < r[k + 1].ss

C20_Witness ==
    /\ sess.bus = "wire2"
    /\ \E i \in 1..Len(out) :
          /\ IsBits(out[i]) /\ Len(out[i].bits) = ByteBits
          /\ out[i].bits[ByteBits].es = samplenum
          /\ LevelsOf(out[i]) = <<1, 0, 1, 1, 0, 0, 0, 0>>

Starts(s) == SelectSeq(s, LAMBDA e : e.ch = "python" /\ e.kind = "START")
\* a start pattern in the sample that arrives
StartPattern == Falls("stb") \/ (pins'.clk = 1 /\ Falls("dio"))
\* the events of a session between its START and its STOP
IsInner(e) == IsSpanned(e) \/ IsMetric(e)

\* C21: START and STOP alternate, START first; every BITS, COMMAND, DATA, ACK
\* and NACK event and every Bitrate metric comes after a START and ahead of
\* the STOP that matches it, none while the state is FIND START; a start
\* pattern (strobe falling, or clock high and data falling) met in FIND DATA
\* or FIND ACK puts no START and resets neither bytecount nor the bits
\* accumulated.
C21_SessionFraming ==
    [][ Sampled =>
        LET py == SelectCh(out', "python")
        IN  /\ Starts(out') # <<>> =>
                  /\ sess.log = <<>> \/ Last(sess.log).kind = "STOP"
                  /\ py = Starts(out') /\ Len(py) = 1
            /\ Stops(out') # <<>> =>
                  /\ sess.log # <<>> /\ sess.log[1].kind = "START" /\ Stops(sess.log) = <<>>
                  /\ Len(Stops(out')) = 1 /\ Last(py).kind = "STOP"
            /\ SelectSeq(out', IsInner) # <<>> =>
                  /\ state # "FIND START"
                  /\ sess.log # <<>> /\ sess.log[1].kind = "START" /\ Stops(sess.log) = <<>>
                  /\ Starts(out') = <<>>
            /\ (state \in {"FIND DATA", "FIND ACK"} /\ StartPattern) =>
                  /\ Starts(out') = <<>> /\ \A i \in 1..Len(ran') : ran'[i] # "handle_start"
                  /\ bytecount' >= bytecount
                  /\ sess'.start = sess.start
                  /\ ran' = <<>> => UNCHANGED decoder
      ]_vars

C21_Witness ==
    /\ input \notin {<<>>, Ties} /\ samplenum = TapeEnd(input) + 1
    /\ sess.bus = "wire2" /\ pins.stb = 0 /\ pins.clk = 1
    /\ state = "FIND DATA" /\ sess.open /\ out = <<>>
    /\ bitcount = ByteBits /\ Len(bits) = ByteBits

====
